---------------------------- MODULE Spec2Model ----------------------------
(***************************************************************************)
(* Model of the text similarity engine of dms-toolkit-rs                   *)
(* (src/src/core/similarity.rs) and of its parallel fan-out                *)
(* compare_with_documents.                                                 *)
(*                                                                         *)
(* Representation                                                          *)
(*   - A text (&str) is a sequence of Unicode scalar values; each scalar   *)
(*     is written as a one-element string ("a", " ") or by its code point  *)
(*     ("U+00E9", a two-byte scalar in UTF-8).  str::len() is the UTF-8    *)
(*     byte length, chars().count() the length of the sequence.            *)
(*   - An f64 percentage is the exact rational it approximates, kept as a  *)
(*     reduced fraction <<num, den>> with den > 0.  Rounding in the last   *)
(*     bit of the f64 is not modelled.                                     *)
(*   - Option<usize> is a set with at most one element: {} is None and     *)
(*     {b} is Some(b).                                                     *)
(*   - usize subtraction is integer subtraction; a negative difference     *)
(*     stands for the arithmetic overflow of the Rust expression.          *)
(***************************************************************************)
EXTENDS Integers, Sequences, FiniteSets

VARIABLES
    source,        \* scorer call: first text argument
    target,        \* scorer call: second text argument
    ret,           \* scorer call: the call made and the value it returned
    source_text,   \* compare_with_documents: source_text argument
    target_texts,  \* compare_with_documents: target_texts slice
    method,        \* compare_with_documents: SimilarityMethod argument
    threshold,     \* compare_with_documents: threshold argument
    pending,       \* indices of target_texts no worker has taken yet
    in_flight,     \* indices taken by a worker and not yet evaluated
    matches,       \* the pairs (idx, similarity) collected so far
    pc,            \* "idle", "running" or "done" for compare_with_documents
    request,       \* the entry point of lib.rs called and its arguments
    files,         \* the files argument of the entry point
    unstarted,     \* indices of files no worker has taken yet
    running,       \* index -> the metadata a worker built and has not pushed
    grouped,       \* the DashMap grouped: MIME type -> entries pushed so far
    fpc            \* "idle", "running" or "done" for the entry point

vars == <<source, target, ret, source_text, target_texts, method, threshold,
          pending, in_flight, matches, pc, request, files, unstarted, running,
          grouped, fpc>>

FileVars == <<request, files, unstarted, running, grouped, fpc>>

\* no entry point of lib.rs is running
FilesIdle ==
    /\ request = [fn |-> "none"]
    /\ files = <<>>
    /\ unstarted = {}
    /\ running = <<>>
    /\ grouped = <<>>
    /\ fpc = "idle"

-----------------------------------------------------------------------------
(* Bounds of the model *)

MaxLen == 3

MaxBudget == 3

MaxRefs == 2

NumWorkers == 2

-----------------------------------------------------------------------------
(* Characters and strings *)

Alphabet == {"a", " ", "U+00E9"}

\* char::len_utf8: the number of bytes of a scalar in a &str
len_utf8(c) == IF c = "U+00E9" THEN 2 ELSE 1

\* char::is_whitespace
is_whitespace(c) == c \in {" ", "\t", "\n"}

\* char::to_lowercase on the scalars of the model
char_to_lowercase(c) ==
    CASE c = "A" -> "a"
      [] c = "B" -> "b"
      [] c = "E" -> "e"
      [] c = "T" -> "t"
      [] c = "U+00C9" -> "U+00E9"
      [] OTHER -> c

\* str::to_lowercase / String::to_lowercase
to_lowercase(text) == [k \in 1..Len(text) |-> char_to_lowercase(text[k])]

RECURSIVE ByteSum(_, _, _)
\* the number of UTF-8 bytes of the scalars text[lo..hi], summed by halves
ByteSum(text, lo, hi) ==
    IF lo > hi THEN 0
    ELSE IF lo = hi THEN len_utf8(text[lo])
    ELSE LET mid == (lo + hi) \div 2
         IN  ByteSum(text, lo, mid) + ByteSum(text, mid + 1, hi)

\* str::len(): length in UTF-8 bytes
str_len(text) == ByteSum(text, 1, Len(text))

\* usize::max / usize::min
max(a, b) == IF a >= b THEN a ELSE b

min(a, b) == IF a <= b THEN a ELSE b

\* usize subtraction; a negative value marks the overflow of a - b in Rust
usize_sub(a, b) == a - b

-----------------------------------------------------------------------------
(* f64 percentages as reduced fractions *)

RECURSIVE GCD(_, _)
GCD(a, b) == IF b = 0 THEN a ELSE GCD(b, a % b)

\* (n as f64 / d as f64) * 100.0, for d > 0
percent(n, d) ==
    LET s == IF n < 0 THEN -1 ELSE 1
        g == GCD(s * n * 100, d)
    IN  <<(n * 100) \div g, d \div g>>

\* the f64 literal v.0 for an integer v
float(v) == <<v, 1>>

\* p >= q, p <= q and p < q on f64 values
f64_ge(p, q) == p[1] * q[2] >= q[1] * p[2]

f64_le(p, q) == p[1] * q[2] <= q[1] * p[2]

f64_lt(p, q) == p[1] * q[2] < q[1] * p[2]

-----------------------------------------------------------------------------
(* pre_filter_by_length *)

\* mutant: the comparison with 100 - T is strict
pre_filter_by_length_strict(src, tgt, T) ==
    LET difference == IF str_len(src) >= str_len(tgt)
                      THEN str_len(src) - str_len(tgt)
                      ELSE str_len(tgt) - str_len(src)
        mx == max(str_len(src), str_len(tgt))
    IN  IF mx = 0 THEN TRUE
        ELSE f64_lt(percent(difference, mx), <<100 * T[2] - T[1], T[2]>>)

\* true iff the pair passes the length pre-filter at threshold T (an f64)
pre_filter_by_length(src, tgt, T) ==
    LET difference == IF str_len(src) >= str_len(tgt)
                      THEN str_len(src) - str_len(tgt)
                      ELSE str_len(tgt) - str_len(src)
        mx == max(str_len(src), str_len(tgt))
    IN  IF mx = 0 THEN TRUE
        ELSE f64_le(percent(difference, mx), <<100 * T[2] - T[1], T[2]>>)

-----------------------------------------------------------------------------
(* jaccard_similarity *)

RECURSIVE SplitRange(_, _, _)
\* str::split_whitespace on text[lo..hi], scanned by halves: the words of the
\* two halves, the word that runs across the middle being joined
SplitRange(text, lo, hi) ==
    IF lo > hi THEN <<>>
    ELSE IF lo = hi
    THEN IF is_whitespace(text[lo]) THEN <<>> ELSE << <<text[lo]>> >>
    ELSE LET mid == (lo + hi) \div 2
             left == SplitRange(text, lo, mid)
             right == SplitRange(text, mid + 1, hi)
         IN  IF ~is_whitespace(text[mid]) /\ ~is_whitespace(text[mid + 1])
             THEN SubSeq(left, 1, Len(left) - 1)
                  \o << left[Len(left)] \o right[1] >>
                  \o Tail(right)
             ELSE left \o right

\* str::split_whitespace: the maximal runs of non-whitespace scalars, in order
split_whitespace(text) == SplitRange(text, 1, Len(text))

\* mutant: the words are compared as written, case included
word_set_cased(text) ==
    LET words == split_whitespace(text)
    IN  {words[k] : k \in 1..Len(words)}

\* the HashSet<String> of lowercased words of a text
word_set(text) ==
    LET words == split_whitespace(text)
    IN  {to_lowercase(words[k]) : k \in 1..Len(words)}

\* mutant: the union is sized as the sum of the two sets
jaccard_similarity_sum(src, tgt) ==
    LET source_words == word_set(src)
        target_words == word_set(tgt)
        intersection_size == Cardinality(source_words \cap target_words)
        union_size == Cardinality(source_words) + Cardinality(target_words)
    IN  IF union_size = 0 THEN float(0)
        ELSE percent(intersection_size, union_size)

jaccard_similarity(src, tgt) ==
    LET source_words == word_set(src)
        target_words == word_set(tgt)
        intersection_size == Cardinality(source_words \cap target_words)
        union_size == Cardinality(source_words \cup target_words)
    IN  IF union_size = 0 THEN float(0)
        ELSE percent(intersection_size, union_size)

-----------------------------------------------------------------------------
(* ngram_similarity *)

RECURSIVE JoinRange(_, _, _)
\* words[lo..hi] joined with single spaces, by halves
JoinRange(words, lo, hi) ==
    IF lo > hi THEN <<>>
    ELSE IF lo = hi THEN words[lo]
    ELSE LET mid == (lo + hi) \div 2
         IN  JoinRange(words, lo, mid) \o <<" ">>
             \o JoinRange(words, mid + 1, hi)

\* Vec<&str>::join(" ")
JoinWords(words) == JoinRange(words, 1, Len(words))

\* get_ngrams: the string `cleaned` the windows are taken from
clean_text(text) ==
    LET lowered == to_lowercase(text)
        filtered == SelectSeq(lowered, LAMBDA c : ~is_whitespace(c) \/ c = " ")
    IN  JoinWords(split_whitespace(filtered))

\* mutant: the last window of the text is left out
get_ngrams_short(text, n) ==
    LET cleaned == clean_text(text)
    IN  IF str_len(cleaned) < n THEN {}
        ELSE {SubSeq(cleaned, k, k + n - 1) : k \in 1..(Len(cleaned) - n)}

\* the nested function get_ngrams of ngram_similarity
get_ngrams(text, n) ==
    LET cleaned == clean_text(text)
    IN  IF str_len(cleaned) < n THEN {}
        ELSE {SubSeq(cleaned, k, k + n - 1) : k \in 1..(Len(cleaned) - n + 1)}

ngram_similarity(src, tgt, n) ==
    LET source_ngrams == get_ngrams(src, n)
        target_ngrams == get_ngrams(tgt, n)
        intersection_size == Cardinality(source_ngrams \cap target_ngrams)
        union_size == Cardinality(source_ngrams \cup target_ngrams)
    IN  IF union_size = 0 THEN float(0)
        ELSE percent(intersection_size, union_size)

-----------------------------------------------------------------------------
(* levenshtein_distance *)

\* mutant: a substitution costs 2 (a deletion followed by an insertion)
substitution_cost_two(s_char, t_char) == IF s_char = t_char THEN 0 ELSE 2

\* mutant: the diagonal step always costs 1, also for equal scalars
substitution_cost_always(s_char, t_char) == 1

\* cost of the diagonal step: 0 when the two scalars are equal, else 1
substitution_cost(s_char, t_char) == IF s_char = t_char THEN 0 ELSE 1

RECURSIVE FillRow(_, _, _, _, _, _, _)
\* the iterations j = lo..hi of the inner loop `for j in 1..cols` of row i, in
\* increasing j; current holds the entries of the row written so far (the
\* others are stale). The range is run by halves, the lower half first.
FillRow(i, lo, hi, s_chars, t_chars, previous, current) ==
    IF lo > hi THEN current
    ELSE IF lo = hi
    THEN LET cost == substitution_cost(s_chars[i], t_chars[lo])
             v == min(min(current[lo - 1] + 1, previous[lo] + 1),
                      previous[lo - 1] + cost)
         IN  [current EXCEPT ![lo] = v]
    ELSE LET mid == (lo + hi) \div 2
             lower == FillRow(i, lo, mid, s_chars, t_chars, previous, current)
         IN  IF lower[mid] < 0 THEN lower   \* never: entries are >= 0
             ELSE FillRow(i, mid + 1, hi, s_chars, t_chars, previous, lower)

\* mutant: the first entry of the row is not set to i, it keeps the value
\* the recycled buffer held
compute_row_stale(i, cols, s_chars, t_chars, previous, current) ==
    FillRow(i, 1, cols - 1, s_chars, t_chars, previous, current)

\* the row buffer `current` after iteration i of the outer loop
compute_row(i, cols, s_chars, t_chars, previous, current) ==
    FillRow(i, 1, cols - 1, s_chars, t_chars, previous,
            [current EXCEPT ![0] = i])

\* row_min after iteration i: the minimum of i and of current[1..cols-1]
row_minimum(i, cols, current) ==
    LET vals == {i} \cup {current[j] : j \in 1..(cols - 1)}
    IN  CHOOSE m \in vals : \A v \in vals : m <= v

\* mutant: a row whose minimum equals the budget already ends the loop
exceeds_budget_inclusive(row_min, max_distance) ==
    \E max_dist \in max_distance : row_min >= max_dist

\* the early-termination test at the end of a row
exceeds_budget(row_min, max_distance) ==
    \E max_dist \in max_distance : row_min > max_dist

RECURSIVE RowLoop(_, _, _, _, _, _, _, _)
\* the outer loop `for i in 1..rows` from row i on, and the final return
RowLoop(i, rows, cols, s_chars, t_chars, previous, current, max_distance) ==
    IF i >= rows THEN previous[cols - 1]
    ELSE LET filled == compute_row(i, cols, s_chars, t_chars, previous, current)
             row_min == row_minimum(i, cols, filled)
         IN  IF exceeds_budget(row_min, max_distance)
             THEN (CHOOSE max_dist \in max_distance : TRUE) + 1
             ELSE RowLoop(i + 1, rows, cols, s_chars, t_chars,
                          filled, previous, max_distance)

\* the operand that indexes the rows (s_chars) after the swap decision
row_operand(source_chars, target_chars) ==
    IF Len(source_chars) < Len(target_chars) THEN source_chars ELSE target_chars

\* the operand that indexes the columns (t_chars) after the swap decision
col_operand(source_chars, target_chars) ==
    IF Len(source_chars) < Len(target_chars) THEN target_chars ELSE source_chars

\* mutant: the length of the source is returned whichever operand is empty
empty_operand_distance_source(source_chars, target_chars) == Len(source_chars)

\* the value returned when an operand is empty
empty_operand_distance(source_chars, target_chars) ==
    IF source_chars = <<>> THEN Len(target_chars) ELSE Len(source_chars)

\* the two row buffers as allocated for two non-empty operands:
\* previous = (0..cols).collect() and current = vec![0; cols]
row_buffers(source_chars, target_chars) ==
    LET cols == Len(col_operand(source_chars, target_chars)) + 1
    IN  <<[j \in 0..(cols - 1) |-> j], [j \in 0..(cols - 1) |-> 0]>>

levenshtein_distance(src, tgt, max_distance) ==
    IF src = <<>> \/ tgt = <<>> THEN empty_operand_distance(src, tgt)
    ELSE LET s_chars == row_operand(src, tgt)
             t_chars == col_operand(src, tgt)
             rows == Len(s_chars) + 1
             cols == Len(t_chars) + 1
             previous == row_buffers(src, tgt)[1]
             current == row_buffers(src, tgt)[2]
         IN  RowLoop(1, rows, cols, s_chars, t_chars, previous, current,
                     max_distance)

-----------------------------------------------------------------------------
(* levenshtein_similarity, hybrid_similarity, calculate_similarity *)

\* mutant: the percentage is computed from whatever levenshtein_distance
\* returned, also when that exceeds the budget
levenshtein_similarity_no_check(src, tgt, max_distance) ==
    LET max_length == max(str_len(src), str_len(tgt))
        distance == levenshtein_distance(src, tgt, max_distance)
    IN  IF max_length = 0 THEN float(100)
        ELSE percent(usize_sub(max_length, distance), max_length)

\* mutant: the percentage is taken of the shorter length
levenshtein_similarity_shorter(src, tgt, max_distance) ==
    LET max_length == min(str_len(src), str_len(tgt))
        distance == levenshtein_distance(src, tgt, max_distance)
    IN  IF max(str_len(src), str_len(tgt)) = 0 THEN float(100)
        ELSE IF \E max_dist \in max_distance : distance > max_dist
             THEN float(0)
             ELSE IF max_length = 0 THEN float(0 - 100 * distance)
             ELSE percent(usize_sub(max_length, distance), max_length)

\* the operands <<max_length, distance>> of the subtraction in
\* levenshtein_similarity when it is evaluated, else nothing
levenshtein_similarity_operands(src, tgt, max_distance) ==
    LET max_length == max(str_len(src), str_len(tgt))
        distance == levenshtein_distance(src, tgt, max_distance)
    IN  IF max_length = 0 THEN {}
        ELSE IF \E max_dist \in max_distance : distance > max_dist THEN {}
             ELSE {<<max_length, distance>>}

levenshtein_similarity(src, tgt, max_distance) ==
    LET max_length == max(str_len(src), str_len(tgt))
        distance == levenshtein_distance(src, tgt, max_distance)
    IN  IF max_length = 0 THEN float(100)
        ELSE IF \E max_dist \in max_distance : distance > max_dist
             THEN float(0)
             ELSE percent(usize_sub(max_length, distance), max_length)

\* the length below which hybrid_similarity uses the edit distance
SmallTextLimit == 1000

\* the Jaccard score below which hybrid_similarity returns it unchanged
JaccardFloor == 20

\* mutant: the budget is the whole of the longer length
max_allowed_whole(max_length) == max_length

\* mutant: the budget is 20% of the longer length
max_allowed_fifth(max_length) == (max_length * 2) \div 10

\* (max_length as f64 * 0.8) as usize
max_allowed(max_length) == (max_length * 8) \div 10

\* mutant: the Jaccard score never ends the computation
hybrid_similarity_no_exit(src, tgt) ==
    LET max_length == max(str_len(src), str_len(tgt))
        max_allowed_distance == max_allowed(max_length)
        distance == levenshtein_distance(src, tgt, {max_allowed_distance})
    IN  IF str_len(src) < SmallTextLimit /\ str_len(tgt) < SmallTextLimit
        THEN IF distance > max_allowed_distance THEN float(20)
             ELSE percent(usize_sub(max_length, distance), max_length)
        ELSE ngram_similarity(src, tgt, 3)

\* mutant: a distance over the budget is converted like any other
hybrid_similarity_no_fallback(src, tgt) ==
    LET jaccard_score == jaccard_similarity(src, tgt)
        max_length == max(str_len(src), str_len(tgt))
        max_allowed_distance == max_allowed(max_length)
        distance == levenshtein_distance(src, tgt, {max_allowed_distance})
    IN  IF f64_lt(jaccard_score, float(JaccardFloor)) THEN jaccard_score
        ELSE IF str_len(src) < SmallTextLimit /\ str_len(tgt) < SmallTextLimit
             THEN percent(usize_sub(max_length, distance), max_length)
             ELSE ngram_similarity(src, tgt, 3)

\* mutant: a text of exactly SmallTextLimit bytes still counts as small
hybrid_similarity_inclusive(src, tgt) ==
    LET jaccard_score == jaccard_similarity(src, tgt)
        max_length == max(str_len(src), str_len(tgt))
        max_allowed_distance == max_allowed(max_length)
        distance == levenshtein_distance(src, tgt, {max_allowed_distance})
    IN  IF f64_lt(jaccard_score, float(JaccardFloor)) THEN jaccard_score
        ELSE IF str_len(src) <= SmallTextLimit /\ str_len(tgt) <= SmallTextLimit
             THEN IF distance > max_allowed_distance THEN float(20)
                  ELSE percent(usize_sub(max_length, distance), max_length)
             ELSE ngram_similarity(src, tgt, 3)

hybrid_similarity(src, tgt) ==
    LET jaccard_score == jaccard_similarity(src, tgt)
        max_length == max(str_len(src), str_len(tgt))
        max_allowed_distance == max_allowed(max_length)
        distance == levenshtein_distance(src, tgt, {max_allowed_distance})
    IN  IF f64_lt(jaccard_score, float(JaccardFloor)) THEN jaccard_score
        ELSE IF str_len(src) < SmallTextLimit /\ str_len(tgt) < SmallTextLimit
             THEN IF distance > max_allowed_distance THEN float(20)
                  ELSE percent(usize_sub(max_length, distance), max_length)
             ELSE ngram_similarity(src, tgt, 3)

\* the operands <<max_length, distance>> of the subtraction in
\* hybrid_similarity when it is evaluated, else nothing
hybrid_similarity_operands(src, tgt) ==
    LET max_length == max(str_len(src), str_len(tgt))
        max_allowed_distance == max_allowed(max_length)
        distance == levenshtein_distance(src, tgt, {max_allowed_distance})
    IN  IF f64_lt(jaccard_similarity(src, tgt), float(JaccardFloor)) THEN {}
        ELSE IF str_len(src) < SmallTextLimit /\ str_len(tgt) < SmallTextLimit
             THEN IF distance > max_allowed_distance THEN {}
                  ELSE {<<max_length, distance>>}
             ELSE {}

\* the scorers hybrid_similarity calls, in the order it calls them
hybrid_similarity_calls(src, tgt) ==
    IF f64_lt(jaccard_similarity(src, tgt), float(JaccardFloor))
    THEN <<"jaccard_similarity">>
    ELSE IF str_len(src) < SmallTextLimit /\ str_len(tgt) < SmallTextLimit
         THEN <<"jaccard_similarity", "levenshtein_distance">>
         ELSE <<"jaccard_similarity", "ngram_similarity">>

Methods == {"Jaccard", "Ngram", "Levenshtein", "Hybrid"}

calculate_similarity(src, tgt, m) ==
    CASE m = "Jaccard" -> jaccard_similarity(src, tgt)
      [] m = "Ngram" -> ngram_similarity(src, tgt, 3)
      [] m = "Levenshtein" -> levenshtein_similarity(src, tgt, {})
      [] m = "Hybrid" -> hybrid_similarity(src, tgt)

-----------------------------------------------------------------------------
(* process_and_compare_files: the threshold and the method of a request *)

\* the threshold used when similarity_threshold is None
DefaultThreshold == 30

\* similarity_threshold.unwrap_or(30.0)
select_threshold(similarity_threshold) ==
    IF similarity_threshold = {} THEN float(DefaultThreshold)
    ELSE CHOOSE t \in similarity_threshold : TRUE

\* mutant: a method name that is not recognised selects Jaccard
select_method_jaccard(similarity_method) ==
    IF similarity_method = {"ngram"} THEN "Ngram"
    ELSE IF similarity_method = {"levenshtein"} THEN "Levenshtein"
    ELSE IF similarity_method = {"hybrid"} THEN "Hybrid"
    ELSE "Jaccard"

\* the match on similarity_method.as_deref()
select_method(similarity_method) ==
    IF similarity_method = {"jaccard"} THEN "Jaccard"
    ELSE IF similarity_method = {"ngram"} THEN "Ngram"
    ELSE IF similarity_method = {"levenshtein"} THEN "Levenshtein"
    ELSE "Hybrid"

-----------------------------------------------------------------------------
(* The file handlers: can_handle on a MIME type *)

\* MIME types are texts: sequences of scalars.  The literals of the handlers:
MimeTextPrefix ==
    <<"t", "e", "x", "t", "/">>

MimeImagePrefix ==
    <<"i", "m", "a", "g", "e", "/">>

MimeJson ==
    <<"a", "p", "p", "l", "i", "c", "a", "t", "i", "o", "n", "/", "j", "s",
      "o", "n">>

MimeXml ==
    <<"a", "p", "p", "l", "i", "c", "a", "t", "i", "o", "n", "/", "x", "m",
      "l">>

MimeJavascript ==
    <<"a", "p", "p", "l", "i", "c", "a", "t", "i", "o", "n", "/", "j", "a",
      "v", "a", "s", "c", "r", "i", "p", "t">>

MimeTypescript ==
    <<"a", "p", "p", "l", "i", "c", "a", "t", "i", "o", "n", "/", "t", "y",
      "p", "e", "s", "c", "r", "i", "p", "t">>

MimeXJavascript ==
    <<"a", "p", "p", "l", "i", "c", "a", "t", "i", "o", "n", "/", "x", "-",
      "j", "a", "v", "a", "s", "c", "r", "i", "p", "t">>

MimeXhtml ==
    <<"a", "p", "p", "l", "i", "c", "a", "t", "i", "o", "n", "/", "x", "h",
      "t", "m", "l", "+", "x", "m", "l">>

MimeLdJson ==
    <<"a", "p", "p", "l", "i", "c", "a", "t", "i", "o", "n", "/", "l", "d",
      "+", "j", "s", "o", "n">>

MimeCsv ==
    <<"t", "e", "x", "t", "/", "c", "s", "v">>

MimeTsv ==
    <<"t", "e", "x", "t", "/", "t", "s", "v">>

MimeTabSeparated ==
    <<"t", "e", "x", "t", "/", "t", "a", "b", "-", "s", "e", "p", "a", "r",
      "a", "t", "e", "d", "-", "v", "a", "l", "u", "e", "s">>

MimePdf ==
    <<"a", "p", "p", "l", "i", "c", "a", "t", "i", "o", "n", "/", "p", "d",
      "f">>

MimeDocxOpenXml ==
    <<"a", "p", "p", "l", "i", "c", "a", "t", "i", "o", "n", "/", "v", "n",
      "d", ".", "o", "p", "e", "n", "x", "m", "l", "f", "o", "r", "m", "a",
      "t", "s", "-", "o", "f", "f", "i", "c", "e", "d", "o", "c", "u", "m",
      "e", "n", "t", ".", "w", "o", "r", "d", "p", "r", "o", "c", "e", "s",
      "s", "i", "n", "g", "m", "l", ".", "d", "o", "c", "u", "m", "e", "n",
      "t">>

MimeDocx ==
    <<"a", "p", "p", "l", "i", "c", "a", "t", "i", "o", "n", "/", "d", "o",
      "c", "x">>

MimeXlsxOpenXml ==
    <<"a", "p", "p", "l", "i", "c", "a", "t", "i", "o", "n", "/", "v", "n",
      "d", ".", "o", "p", "e", "n", "x", "m", "l", "f", "o", "r", "m", "a",
      "t", "s", "-", "o", "f", "f", "i", "c", "e", "d", "o", "c", "u", "m",
      "e", "n", "t", ".", "s", "p", "r", "e", "a", "d", "s", "h", "e", "e",
      "t", "m", "l", ".", "s", "h", "e", "e", "t">>

MimeMsExcel ==
    <<"a", "p", "p", "l", "i", "c", "a", "t", "i", "o", "n", "/", "v", "n",
      "d", ".", "m", "s", "-", "e", "x", "c", "e", "l">>

MimeXlsx ==
    <<"a", "p", "p", "l", "i", "c", "a", "t", "i", "o", "n", "/", "x", "l",
      "s", "x">>

MimeJpeg ==
    <<"i", "m", "a", "g", "e", "/", "j", "p", "e", "g">>

MimeJpg ==
    <<"i", "m", "a", "g", "e", "/", "j", "p", "g">>

MimePng ==
    <<"i", "m", "a", "g", "e", "/", "p", "n", "g">>

MimeGif ==
    <<"i", "m", "a", "g", "e", "/", "g", "i", "f">>

MimeBmp ==
    <<"i", "m", "a", "g", "e", "/", "b", "m", "p">>

MimeTiff ==
    <<"i", "m", "a", "g", "e", "/", "t", "i", "f", "f">>

MimeWebp ==
    <<"i", "m", "a", "g", "e", "/", "w", "e", "b", "p">>

\* MIME types none of the literals equals: a text type, types no handler
\* knows, and variants of a known type
MimeTextPlain ==
    <<"t", "e", "x", "t", "/", "p", "l", "a", "i", "n">>

MimeSvg ==
    <<"i", "m", "a", "g", "e", "/", "s", "v", "g", "+", "x", "m", "l">>

MimeZip ==
    <<"a", "p", "p", "l", "i", "c", "a", "t", "i", "o", "n", "/", "z", "i",
      "p">>

MimeOctetStream ==
    <<"a", "p", "p", "l", "i", "c", "a", "t", "i", "o", "n", "/", "o", "c",
      "t", "e", "t", "-", "s", "t", "r", "e", "a", "m">>

MimeUpperPdf ==
    <<"A", "P", "P", "L", "I", "C", "A", "T", "I", "O", "N", "/", "P", "D",
      "F">>

MimePdfParam ==
    <<"a", "p", "p", "l", "i", "c", "a", "t", "i", "o", "n", "/", "p", "d",
      "f", ";", " ", "c", "h", "a", "r", "s", "e", "t", "=", "b", "i", "n",
      "a", "r", "y">>

MimeTextNoSlash ==
    <<"t", "e", "x", "t">>

\* str::starts_with
starts_with(text, prefix) ==
    /\ Len(text) >= Len(prefix)
    /\ SubSeq(text, 1, Len(prefix)) = prefix

\* TextHandler::is_mime_type_text
is_mime_type_text(mime_type) ==
    \/ starts_with(mime_type, MimeTextPrefix)
    \/ mime_type \in {MimeJson, MimeXml, MimeJavascript, MimeTypescript,
                      MimeXJavascript, MimeXhtml, MimeLdJson}

\* TextHandler::can_handle
text_can_handle(mime_type) ==
    \/ is_mime_type_text(mime_type)
    \/ mime_type = MimeCsv
    \/ mime_type = MimeTsv
    \/ mime_type = MimeTabSeparated

\* mutant: every application/ type is taken for a PDF
pdf_can_handle_application(mime_type) ==
    starts_with(mime_type, <<"a", "p", "p", "l", "i", "c", "a", "t", "i", "o",
                             "n", "/">>)

\* PdfHandler::can_handle
pdf_can_handle(mime_type) == mime_type = MimePdf

\* DocxHandler::can_handle
docx_can_handle(mime_type) ==
    mime_type = MimeDocxOpenXml \/ mime_type = MimeDocx

\* XlsxHandler::can_handle
xlsx_can_handle(mime_type) ==
    \/ mime_type = MimeXlsxOpenXml
    \/ mime_type = MimeMsExcel
    \/ mime_type = MimeXlsx

\* ImageHandler::can_handle
image_can_handle(mime_type) ==
    /\ starts_with(mime_type, MimeImagePrefix)
    /\ mime_type \in {MimeJpeg, MimeJpg, MimePng, MimeGif, MimeBmp, MimeTiff,
                      MimeWebp}

\* the five handlers
Handlers == {"Text", "Pdf", "Docx", "Xlsx", "Image"}

\* h.can_handle(mime_type) for the handler h
can_handle(h, mime_type) ==
    CASE h = "Text" -> text_can_handle(mime_type)
      [] h = "Pdf" -> pdf_can_handle(mime_type)
      [] h = "Docx" -> docx_can_handle(mime_type)
      [] h = "Xlsx" -> xlsx_can_handle(mime_type)
      [] h = "Image" -> image_can_handle(mime_type)

\* the vector handlers of process_files
process_files_handlers == <<"Docx", "Image", "Pdf", "Text", "Xlsx">>

\* the vector handlers of process_and_compare_files
process_and_compare_files_handlers == <<"Text", "Pdf", "Docx", "Xlsx", "Image">>

\* handlers.iter().find(|h| h.can_handle(&file.mime_type)): None or the first
\* handler of the vector that accepts the MIME type
find_handler(handlers, mime_type) ==
    LET accepting == {k \in 1..Len(handlers) : can_handle(handlers[k], mime_type)}
    IN  IF accepting = {} THEN {}
        ELSE {handlers[CHOOSE k \in accepting : \A l \in accepting : k <= l]}

\* the MIME types a handler is asked about
MimeTypes ==
    {MimeTextPrefix, MimeImagePrefix, MimeJson, MimeXml, MimeJavascript,
     MimeTypescript, MimeXJavascript, MimeXhtml, MimeLdJson, MimeCsv,
     MimeTsv, MimeTabSeparated, MimePdf, MimeDocxOpenXml, MimeDocx,
     MimeXlsxOpenXml, MimeMsExcel, MimeXlsx, MimeJpeg, MimeJpg, MimePng,
     MimeGif, MimeBmp, MimeTiff, MimeWebp, MimeTextPlain, MimeSvg,
     MimeZip, MimeOctetStream, MimeUpperPdf, MimePdfParam, MimeTextNoSlash, <<>>}

-----------------------------------------------------------------------------
(* Inputs *)

\* every text over Alphabet of at most MaxLen scalars
Texts == UNION {[1..k -> Alphabet] : k \in 0..MaxLen}

\* the pair of the unit test test_levenshtein_distance
Kitten == <<"k", "i", "t", "t", "e", "n">>

Sitting == <<"s", "i", "t", "t", "i", "n", "g">>

SamplePairs == {<<Kitten, Sitting>>, <<Sitting, Kitten>>}

\* the values of max_distance: None, Some(0), ..., Some(MaxBudget)
Budgets == {{}} \cup {{b} : b \in 0..MaxBudget}

\* the texts a comparison request is built from
CorpusTexts ==
    { <<>>,
      <<"a">>,
      <<"a", " ", "a">>,
      <<"U+00E9">>,
      <<"a", "a", "a">>,
      <<"a", "a", "a", "a", "a", "a">> }

\* the thresholds of a comparison request (30.0 is the default of the API)
Thresholds == {float(0), float(30), float(50), float(100)}

NoCall == [fn |-> "none", arg |-> {}, value |-> 0]

-----------------------------------------------------------------------------
(* A call of one scorer on a pair of texts *)

InitScore ==
    /\ \E pair \in (Texts \X Texts) \cup SamplePairs :
          /\ source = pair[1]
          /\ target = pair[2]
    /\ ret = NoCall
    /\ source_text = <<>>
    /\ target_texts = <<>>
    /\ method = "Hybrid"
    /\ threshold = float(30)
    /\ pending = {}
    /\ in_flight = {}
    /\ matches = <<>>
    /\ pc = "idle"
    /\ FilesIdle

CompareVars == <<source_text, target_texts, method, threshold, pending,
                 in_flight, matches, pc>>

CallLevenshteinDistance ==
    /\ ret.fn = "none"
    /\ pc = "idle"
    /\ \E max_distance \in Budgets :
          ret' = [fn |-> "levenshtein_distance", arg |-> max_distance,
                  value |-> levenshtein_distance(source, target, max_distance)]
    /\ UNCHANGED <<source, target, CompareVars, FileVars>>

CallLevenshteinSimilarity ==
    /\ ret.fn = "none"
    /\ pc = "idle"
    /\ \E max_distance \in Budgets :
          ret' = [fn |-> "levenshtein_similarity", arg |-> max_distance,
                  value |-> levenshtein_similarity(source, target, max_distance)]
    /\ UNCHANGED <<source, target, CompareVars, FileVars>>

CallCalculateSimilarity ==
    /\ ret.fn = "none"
    /\ pc = "idle"
    /\ \E m \in Methods :
          ret' = [fn |-> "calculate_similarity", arg |-> {m},
                  value |-> calculate_similarity(source, target, m)]
    /\ UNCHANGED <<source, target, CompareVars, FileVars>>

NextScore ==
    \/ CallLevenshteinDistance
    \/ CallLevenshteinSimilarity
    \/ CallCalculateSimilarity

SpecScore == InitScore /\ [][NextScore]_vars

-----------------------------------------------------------------------------
(* A call of a word, n-gram, hybrid or pre-filter function on a pair of texts *)

WordAlphabet == {"a", "A", " "}

\* every text over WordAlphabet of at most MaxLen scalars
WordTexts == UNION {[1..k -> WordAlphabet] : k \in 0..MaxLen}

\* the texts of the unit test test_pre_filter
Hello ==
    <<"h", "e", "l", "l", "o">>

HelloWorld ==
    <<"h", "e", "l", "l", "o", " ", "w", "o", "r", "l", "d">>

VeryLong ==
    <<"t", "h", "i", "s", " ", "i", "s", " ", "a", " ", "v", "e", "r",
      "y", " ", "l", "o", "n", "g", " ", "s", "t", "r", "i", "n", "g">>

\* six words, one of them "a"
SixWords ==
    <<"a", " ", "b", " ", "c", " ", "d", " ", "e", " ", "f">>

\* "a", four spaces, "a"
WideGap == <<"a", " ", " ", " ", " ", "a">>

\* three words "a": the distance from "a" is 4 of 5
ThreeWords == <<"a", " ", "a", " ", "a">>

\* words separated by a tab and by a space
TabWords == <<"a", "\t", "b">>

SpaceWords == <<"a", " ", "b">>

\* a text of three two-byte scalars, and texts mixing one- and two-byte scalars
Accents == <<"U+00E9", "U+00E9", "U+00E9">>

AccentWord == <<"U+00E9", "a">>

AccentWords == <<"a", " ", "U+00E9", " ", "a">>

\* "a a a ..." cut after n scalars: n bytes
AWords(n) == [k \in 1..n |-> IF k % 2 = 1 THEN "a" ELSE " "]

\* "é é é ..." cut after n scalars: n + (n+1) div 2 bytes
EWords(n) == [k \in 1..n |-> IF k % 2 = 1 THEN "U+00E9" ELSE " "]

\* texts just below, at and above the limit of hybrid_similarity, in bytes
BelowLimit == AWords(SmallTextLimit - 1)

AtLimit == AWords(SmallTextLimit)

\* 700 scalars, 1050 bytes
AccentsOverLimit == EWords(700)

\* the pairs a call is made on besides WordTexts \X WordTexts; no pair holds
\* two texts of SmallTextLimit scalars or more
TextSamplePairs ==
    LET pairs == { <<Hello, HelloWorld>>, <<<<"a">>, VeryLong>>,
                   <<<<"a">>, SixWords>>, <<<<"a">>, WideGap>>,
                   <<<<"a">>, ThreeWords>>,
                   <<TabWords, SpaceWords>>, <<SpaceWords, SpaceWords>>,
                   <<Accents, Accents>>,
                   <<AccentWord, AccentWord>>, <<AccentWords, <<"a">> >>,
                   <<BelowLimit, AccentWords>>, <<AtLimit, AccentWords>>,
                   <<AtLimit, <<"U+00E9">> >>, <<AtLimit, <<"a">> >>,
                   <<AtLimit, <<"a", " ", "a">> >>,
                   <<AccentsOverLimit, AccentWords>> }
    IN  pairs \cup {<<pr[2], pr[1]>> : pr \in pairs}

\* the window sizes ngram_similarity is called with
MaxNgram == 3

NgramSizes == 1..MaxNgram

\* the values of similarity_method: None and Some(name)
MethodNames ==
    {{}} \cup {{name} : name \in
                 {"jaccard", "ngram", "levenshtein", "hybrid", "cosine",
                  "Jaccard"}}

\* the values of similarity_threshold: None and Some(50.0)
ThresholdOptions == {{}, {float(50)}}

InitText ==
    /\ \E pair \in (WordTexts \X WordTexts) \cup TextSamplePairs :
          /\ source = pair[1]
          /\ target = pair[2]
    /\ ret = NoCall
    /\ source_text = <<>>
    /\ target_texts = <<>>
    /\ method = "Hybrid"
    /\ threshold = float(30)
    /\ pending = {}
    /\ in_flight = {}
    /\ matches = <<>>
    /\ pc = "idle"
    /\ FilesIdle

CallJaccardSimilarity ==
    /\ ret.fn = "none"
    /\ pc = "idle"
    /\ ret' = [fn |-> "jaccard_similarity", arg |-> {},
               value |-> jaccard_similarity(source, target)]
    /\ UNCHANGED <<source, target, CompareVars, FileVars>>

CallNgramSimilarity ==
    /\ ret.fn = "none"
    /\ pc = "idle"
    /\ \E n \in NgramSizes :
          ret' = [fn |-> "ngram_similarity", arg |-> {n},
                  value |-> ngram_similarity(source, target, n)]
    /\ UNCHANGED <<source, target, CompareVars, FileVars>>

CallHybridSimilarity ==
    /\ ret.fn = "none"
    /\ pc = "idle"
    /\ ret' = [fn |-> "hybrid_similarity", arg |-> {},
               value |-> hybrid_similarity(source, target)]
    /\ UNCHANGED <<source, target, CompareVars, FileVars>>

CallPreFilter ==
    /\ ret.fn = "none"
    /\ pc = "idle"
    /\ \E T \in Thresholds :
          ret' = [fn |-> "pre_filter_by_length", arg |-> {T},
                  value |-> pre_filter_by_length(source, target, T)]
    /\ UNCHANGED <<source, target, CompareVars, FileVars>>

\* the first lines of process_and_compare_files: the threshold and the method
\* of the request, and the score that method gives the pair
CallSelectMethod ==
    /\ ret.fn = "none"
    /\ pc = "idle"
    /\ \E similarity_method \in MethodNames :
       \E similarity_threshold \in ThresholdOptions :
          ret' = [fn |-> "process_and_compare_files",
                  arg |-> <<similarity_method, similarity_threshold>>,
                  value |-> <<select_method(similarity_method),
                              select_threshold(similarity_threshold),
                              calculate_similarity(source, target,
                                  select_method(similarity_method))>>]
    /\ UNCHANGED <<source, target, CompareVars, FileVars>>

NextText ==
    \/ CallJaccardSimilarity
    \/ CallNgramSimilarity
    \/ CallHybridSimilarity
    \/ CallPreFilter
    \/ CallSelectMethod

SpecText == InitText /\ [][NextText]_vars

-----------------------------------------------------------------------------
(* compare_with_documents: the parallel fan-out over target_texts *)

\* mutant: the threshold test is strict
filter_map_closure_strict(idx, tgt) ==
    IF ~pre_filter_by_length(source_text, tgt, threshold) THEN <<>>
    ELSE LET similarity == calculate_similarity(source_text, tgt, method)
         IN  IF f64_ge(similarity, threshold) /\ similarity # threshold
             THEN << <<idx, similarity>> >>
             ELSE <<>>

\* mutant: a match is numbered by its arrival in the result, not by the
\* position of its reference
filter_map_closure_by_arrival(idx, tgt) ==
    IF ~pre_filter_by_length(source_text, tgt, threshold) THEN <<>>
    ELSE LET similarity == calculate_similarity(source_text, tgt, method)
         IN  IF f64_ge(similarity, threshold)
             THEN << <<Len(matches), similarity>> >>
             ELSE <<>>

\* the closure given to filter_map: the pairs (zero or one) it yields for idx
filter_map_closure(idx, tgt) ==
    IF ~pre_filter_by_length(source_text, tgt, threshold) THEN <<>>
    ELSE LET similarity == calculate_similarity(source_text, tgt, method)
         IN  IF f64_ge(similarity, threshold) THEN << <<idx, similarity>> >>
             ELSE <<>>

\* collect(): the items a finished closure yields are added to the result
collect(collected, items) == collected \o items

\* the request of the example in the documentation of compare_with_documents
QuickBrownFox ==
    <<"T", "h", "e", " ", "q", "u", "i", "c", "k", " ", "b", "r", "o",
      "w", "n", " ", "f", "o", "x">>

QuickBrownFoxJumps ==
    <<"T", "h", "e", " ", "q", "u", "i", "c", "k", " ", "b", "r", "o",
      "w", "n", " ", "f", "o", "x", " ", "j", "u", "m", "p", "s">>

DifferentText ==
    <<"A", " ", "c", "o", "m", "p", "l", "e", "t", "e", "l", "y", " ",
      "d", "i", "f", "f", "e", "r", "e", "n", "t", " ", "t", "e", "x",
      "t">>

DocReferences == <<QuickBrownFoxJumps, DifferentText, QuickBrownFox>>

Init ==
    /\ \/ /\ source_text \in CorpusTexts
          /\ target_texts \in UNION {[1..k -> CorpusTexts] : k \in 0..MaxRefs}
          /\ method \in Methods
          /\ threshold \in Thresholds
       \/ /\ source_text = QuickBrownFox
          /\ target_texts = DocReferences
          /\ method = "Hybrid"
          /\ threshold = float(50)
    /\ pending = 0..(Len(target_texts) - 1)
    /\ in_flight = {}
    /\ matches = <<>>
    /\ pc = "running"
    /\ source = <<>>
    /\ target = <<>>
    /\ ret = NoCall
    /\ FilesIdle

\* an idle worker takes an item par_iter().enumerate() has not handed out
Take(idx) ==
    /\ pc = "running"
    /\ idx \in pending
    /\ Cardinality(in_flight) < NumWorkers
    /\ pending' = pending \ {idx}
    /\ in_flight' = in_flight \cup {idx}
    /\ UNCHANGED <<source_text, target_texts, method, threshold, matches, pc,
                   source, target, ret>>
    /\ UNCHANGED FileVars

\* a worker runs the closure on its item and hands the outcome to collect()
Finish(idx) ==
    /\ pc = "running"
    /\ idx \in in_flight
    /\ matches' = collect(matches,
                          filter_map_closure(idx, target_texts[idx + 1]))
    /\ in_flight' = in_flight \ {idx}
    /\ UNCHANGED <<source_text, target_texts, method, threshold, pending, pc,
                   source, target, ret>>
    /\ UNCHANGED FileVars

\* every item was evaluated: compare_with_documents returns matches
Return ==
    /\ pc = "running"
    /\ pending = {}
    /\ in_flight = {}
    /\ pc' = "done"
    /\ UNCHANGED <<source_text, target_texts, method, threshold, pending,
                   in_flight, matches, source, target, ret>>
    /\ UNCHANGED FileVars

Next ==
    \/ \E idx \in pending : Take(idx)
    \/ \E idx \in in_flight : Finish(idx)
    \/ Return

Spec == Init /\ [][Next]_vars

-----------------------------------------------------------------------------
(* process_files and process_and_compare_files: the parallel loop over files *)

\* the files a request holds at most
MaxFiles == 2

RECURSIVE MatchesFrom(_, _, _, _, _)
\* the pairs filter_map yields for the references from idx on, in the order
\* of the references
MatchesFrom(src, refs, m, T, idx) ==
    IF idx >= Len(refs) THEN <<>>
    ELSE LET tgt == refs[idx + 1]
             similarity == calculate_similarity(src, tgt, m)
             rest == MatchesFrom(src, refs, m, T, idx + 1)
         IN  IF pre_filter_by_length(src, tgt, T) /\ f64_ge(similarity, T)
             THEN << <<idx, similarity>> >> \o rest
             ELSE rest

\* the value compare_with_documents returns to the closure of
\* process_and_compare_files
compare_with_documents(src, refs, m, T) == MatchesFrom(src, refs, m, T, 0)

\* the literal "Error:" text_content is tested against
ErrorMarker == <<"E", "r", "r", "o", "r", ":">>

\* format!("Error: {}", err)
format_error(err) == ErrorMarker \o <<" ">> \o err

\* h.extract_text(content, ..): the text or the message the handler returns
\* for the content, which the content of the model carries with it
extract_text(content) == content.extracted

\* the pair (text_content, encoding) of the closure
text_and_encoding(handlers, file) ==
    IF find_handler(handlers, file.mime_type) = {}
    THEN <<<<>>, "application/octet-stream">>
    ELSE IF extract_text(file.content).ok
         THEN <<extract_text(file.content).text, "utf-8">>
         ELSE <<format_error(extract_text(file.content).text), "error">>

\* let similarity_matches = if !text_content.is_empty() &&
\* !text_content.starts_with("Error:") { .. } else { Vec::new() }
similarity_matches(text_content, req) ==
    IF text_content # <<>> /\ ~starts_with(text_content, ErrorMarker)
    THEN LET found == compare_with_documents(text_content, req.reference_texts,
                          select_method(req.similarity_method),
                          select_threshold(req.similarity_threshold))
         IN  [k \in 1..Len(found) |->
                 [reference_index |-> found[k][1],
                  similarity_percentage |-> found[k][2]]]
    ELSE <<>>

\* mutant: a failed extraction is reported with the encoding of a success
file_metadata_utf8(req, file) ==
    IF req.fn = "process_files"
    THEN [name |-> file.filename, size |-> file.content.len,
          processing_time_ms |-> float(0),
          encoding |-> IF find_handler(process_files_handlers,
                                       file.mime_type) = {}
                       THEN "application/octet-stream" ELSE "utf-8",
          text_content |-> text_and_encoding(process_files_handlers, file)[1]]
    ELSE [name |-> file.filename, size |-> file.content.len,
          processing_time_ms |-> float(0),
          encoding |-> IF find_handler(process_and_compare_files_handlers,
                                       file.mime_type) = {}
                       THEN "application/octet-stream" ELSE "utf-8",
          text_content |->
              text_and_encoding(process_and_compare_files_handlers, file)[1],
          similarity_matches |->
              similarity_matches(
                  text_and_encoding(process_and_compare_files_handlers,
                                    file)[1], req)]

\* the FileMetadata or FileMetadataWithSimilarity the closure builds for a file
file_metadata(req, file) ==
    IF req.fn = "process_files"
    THEN LET te == text_and_encoding(process_files_handlers, file)
         IN  [name |-> file.filename, size |-> file.content.len,
              processing_time_ms |-> float(0),
              encoding |-> te[2], text_content |-> te[1]]
    ELSE LET te == text_and_encoding(process_and_compare_files_handlers, file)
         IN  [name |-> file.filename, size |-> file.content.len,
              processing_time_ms |-> float(0),
              encoding |-> te[2], text_content |-> te[1],
              similarity_matches |-> similarity_matches(te[1], req)]

\* mutant: the entry replaces the group instead of joining it
entry_push_insert(map, key, value) ==
    [k \in DOMAIN map \cup {key} |-> IF k = key THEN <<value>> ELSE map[k]]

\* grouped.entry(key).or_insert_with(Vec::new).push(value), done while the
\* entry holds the lock of its shard
entry_push(map, key, value) ==
    [k \in DOMAIN map \cup {key} |->
        IF k = key
        THEN (IF key \in DOMAIN map THEN Append(map[key], value) ELSE <<value>>)
        ELSE map[k]]

\* the MIME types of the files of a request: a text type, the PDF type and a
\* type no handler accepts
FileMimeTypes == {MimeTextPlain, MimePdf, MimeZip}

\* the text "Error: a"
ErrorText == format_error(<<"a">>)

\* the contents of the files, each with the outcome of extract_text on it: an
\* empty file, the text "a", a text that starts with "Error:", and a content
\* the handler fails on with the message "a"
Contents ==
    { [len |-> 0, extracted |-> [ok |-> TRUE, text |-> <<>>]],
      [len |-> 1, extracted |-> [ok |-> TRUE, text |-> <<"a">>]],
      [len |-> 8, extracted |-> [ok |-> TRUE, text |-> ErrorText]],
      [len |-> 2, extracted |-> [ok |-> FALSE, text |-> <<"a">>]] }

\* the file names of a request
Filenames == {"a.txt"}

FileInputs ==
    [filename : Filenames, mime_type : FileMimeTypes, content : Contents]

\* the references of a request of process_and_compare_files
FileReferences == << <<>>, ErrorText, <<"a">> >>

\* the calls of the two entry points: process_files(files),
\* process_and_compare_files(files, references, None, None) and
\* process_and_compare_files(files, references, Some(0.0), Some("levenshtein"))
Requests ==
    { [fn |-> "process_files", reference_texts |-> <<>>,
       similarity_threshold |-> {}, similarity_method |-> {}],
      [fn |-> "process_and_compare_files", reference_texts |-> FileReferences,
       similarity_threshold |-> {}, similarity_method |-> {}],
      [fn |-> "process_and_compare_files", reference_texts |-> FileReferences,
       similarity_threshold |-> {float(0)},
       similarity_method |-> {"levenshtein"}] }

InitFiles ==
    /\ request \in Requests
    /\ files \in UNION {[1..k -> FileInputs] : k \in 0..MaxFiles}
    /\ unstarted = 0..(Len(files) - 1)
    /\ running = <<>>
    /\ grouped = <<>>
    /\ fpc = "running"
    /\ source = <<>>
    /\ target = <<>>
    /\ ret = NoCall
    /\ source_text = <<>>
    /\ target_texts = <<>>
    /\ method = "Hybrid"
    /\ threshold = float(30)
    /\ pending = {}
    /\ in_flight = {}
    /\ matches = <<>>
    /\ pc = "idle"

\* a worker takes a file par_iter() has not handed out and runs the closure
\* up to the metadata
StartFile(i) ==
    /\ fpc = "running"
    /\ i \in unstarted
    /\ Cardinality(DOMAIN running) < NumWorkers
    /\ unstarted' = unstarted \ {i}
    /\ running' = [j \in DOMAIN running \cup {i} |->
                      IF j = i THEN file_metadata(request, files[i + 1])
                      ELSE running[j]]
    /\ UNCHANGED <<request, files, grouped, fpc>>
    /\ UNCHANGED <<source, target, ret, CompareVars>>

\* the worker pushes its metadata into the group of the file's MIME type
PushFile(i) ==
    /\ fpc = "running"
    /\ i \in DOMAIN running
    /\ grouped' = entry_push(grouped, files[i + 1].mime_type, running[i])
    /\ running' = [j \in DOMAIN running \ {i} |-> running[j]]
    /\ UNCHANGED <<request, files, unstarted, fpc>>
    /\ UNCHANGED <<source, target, ret, CompareVars>>

\* for_each has run every closure: the entry point returns the groups
ReturnFiles ==
    /\ fpc = "running"
    /\ unstarted = {}
    /\ DOMAIN running = {}
    /\ fpc' = "done"
    /\ UNCHANGED <<request, files, unstarted, running, grouped>>
    /\ UNCHANGED <<source, target, ret, CompareVars>>

NextFiles ==
    \/ \E i \in unstarted : StartFile(i)
    \/ \E i \in DOMAIN running : PushFile(i)
    \/ ReturnFiles

SpecFiles == InitFiles /\ [][NextFiles]_vars

-----------------------------------------------------------------------------
(* The handler lookup of one file, as the closure of each entry point makes it *)

\* the entry points of lib.rs and the vector handlers each of them builds
EntryPoints == {"process_files", "process_and_compare_files"}

handlers_of(entry) ==
    IF entry = "process_files" THEN process_files_handlers
    ELSE process_and_compare_files_handlers

\* the MIME types a handler is looked up for: the literals of the handlers,
\* their near misses, and each of them with a parameter separator appended
\* or its last character missing
HandlerMimeTypes ==
    MimeTypes
        \cup {Append(mime_type, ";") : mime_type \in MimeTypes}
        \cup {SubSeq(mime_type, 1, Len(mime_type) - 1) :
                  mime_type \in MimeTypes \ {<<>>}}

\* the files a handler is looked up for: every MIME type, every content
HandlerFiles ==
    [filename : Filenames, mime_type : HandlerMimeTypes, content : Contents]

InitHandlers ==
    /\ \E file \in HandlerFiles : files = <<file>>
    /\ request = [fn |-> "none"]
    /\ unstarted = {}
    /\ running = <<>>
    /\ grouped = <<>>
    /\ fpc = "idle"
    /\ source = <<>>
    /\ target = <<>>
    /\ ret = NoCall
    /\ source_text = <<>>
    /\ target_texts = <<>>
    /\ method = "Hybrid"
    /\ threshold = float(30)
    /\ pending = {}
    /\ in_flight = {}
    /\ matches = <<>>
    /\ pc = "idle"

\* h.can_handle(&file.mime_type) for one handler
CallCanHandle(h) ==
    /\ ret' = [fn |-> "can_handle", arg |-> {h},
               value |-> can_handle(h, files[1].mime_type)]
    /\ UNCHANGED <<source, target, CompareVars, FileVars>>

\* handlers.iter().find(...) over the vector of one entry point
CallFindHandler(entry) ==
    /\ ret' = [fn |-> "find", arg |-> {entry},
               value |-> find_handler(handlers_of(entry), files[1].mime_type)]
    /\ UNCHANGED <<source, target, CompareVars, FileVars>>

\* the match on the handler found: (text_content, encoding) of the file
CallExtract(entry) ==
    /\ ret' = [fn |-> "extract_text", arg |-> {entry},
               value |-> text_and_encoding(handlers_of(entry), files[1])]
    /\ UNCHANGED <<source, target, CompareVars, FileVars>>

NextHandlers ==
    \/ \E h \in Handlers : CallCanHandle(h)
    \/ \E entry \in EntryPoints : CallFindHandler(entry)
    \/ \E entry \in EntryPoints : CallExtract(entry)

SpecHandlers == InitHandlers /\ [][NextHandlers]_vars

-----------------------------------------------------------------------------
(* Reference definitions used by the properties *)

RECURSIVE EditDistance(_, _)
\* the edit distance by its defining recurrence on whole strings: the least
\* number of single-scalar insertions, deletions and substitutions
EditDistance(a, b) ==
    IF a = <<>> THEN Len(b)
    ELSE IF b = <<>> THEN Len(a)
    ELSE min(EditDistance(Tail(a), Tail(b))
                 + (IF Head(a) = Head(b) THEN 0 ELSE 1),
             min(EditDistance(Tail(a), b) + 1, EditDistance(a, Tail(b)) + 1))

\* the indices of target_texts
Indices == 0..(Len(target_texts) - 1)

\* the score of reference i under the method of the request
Score(i) == calculate_similarity(source_text, target_texts[i + 1], method)

\* the pairs collected so far, as a set
MatchSet == {matches[k] : k \in 1..Len(matches)}

RECURSIVE SequentialFrom(_)
\* the closure applied to the references one after the other, from idx on
SequentialFrom(idx) ==
    IF idx >= Len(target_texts) THEN <<>>
    ELSE filter_map_closure(idx, target_texts[idx + 1])
         \o SequentialFrom(idx + 1)

InRange(v) == f64_ge(v, float(0)) /\ f64_le(v, float(100))

DistanceCall(md) == ret.fn = "levenshtein_distance" /\ ret.arg = md

SimilarityCall(md) == ret.fn = "levenshtein_similarity" /\ ret.arg = md

-----------------------------------------------------------------------------
(* Properties *)

\* C1: when compare_with_documents returns, its result is exactly the pairs
\* (i, s_i) such that reference i passes pre_filter_by_length at the threshold
\* and its score s_i under the method is >= the threshold (inclusive).
C1_ExactlyQualifying ==
    pc = "done" =>
        MatchSet = {<<i, Score(i)>> : i \in
                      {j \in Indices :
                          /\ pre_filter_by_length(source_text,
                                                  target_texts[j + 1], threshold)
                          /\ f64_ge(Score(j), threshold)}}

\* a run returned a match whose score equals the threshold and left out
\* another reference
C1_Witness ==
    /\ pc = "done"
    /\ \E k \in 1..Len(matches) : matches[k][2] = threshold
    /\ Len(matches) < Len(target_texts)

\* C2: the pre-filter is sound: a reference whose score under the selected
\* method meets the threshold passes pre_filter_by_length and is returned.
C2_PreFilterSound ==
    pc = "done" =>
        \A i \in Indices :
            f64_ge(Score(i), threshold) =>
                /\ pre_filter_by_length(source_text, target_texts[i + 1],
                                        threshold)
                /\ \E k \in 1..Len(matches) : matches[k][1] = i

\* C3: whatever the interleaving of the workers, the result holds the same
\* pairs as the left-to-right sequential evaluation, each index occurs at most
\* once, and each pair carries the score of the reference at its index.
C3_SameAsSequential ==
    pc = "done" =>
        /\ MatchSet = {SequentialFrom(0)[k] : k \in 1..Len(SequentialFrom(0))}
        /\ \A k, l \in 1..Len(matches) : matches[k][1] = matches[l][1] => k = l
        /\ \A k \in 1..Len(matches) :
              /\ matches[k][1] \in Indices
              /\ matches[k][2] = Score(matches[k][1])

\* a run whose results were collected out of index order
C3_Witness ==
    /\ pc = "done"
    /\ Len(matches) >= 2
    /\ matches[1][1] > matches[2][1]
    /\ matches[1][2] # matches[2][2]

\* C4: every similarity computed by levenshtein_similarity (with or without
\* a budget) and by calculate_similarity (any method) lies in [0, 100].
C4_PercentageInRange ==
    ret.fn \in {"levenshtein_similarity", "calculate_similarity"} =>
        InRange(ret.value)

\* the Hybrid method returned a score strictly between 0 and 100
C4_Witness ==
    /\ ret.fn = "calculate_similarity"
    /\ ret.arg = {"Hybrid"}
    /\ f64_lt(float(0), ret.value)
    /\ f64_lt(ret.value, float(100))

\* C5: without a budget the two-row dynamic program returns the edit distance
\* of the two scalar sequences; for "kitten" and "sitting" it returns 3.
C5_DistanceIsEditDistance ==
    DistanceCall({}) =>
        /\ ret.value = EditDistance(source, target)
        /\ (source = Kitten /\ target = Sitting) => ret.value = 3

\* the distance of "kitten" and "sitting" was computed
C5_Witness ==
    /\ DistanceCall({})
    /\ source = Kitten
    /\ target = Sitting
    /\ ret.value = 3

\* C6: without a budget the distance is symmetric in its arguments, and the
\* distance to or from the empty text is the scalar count of the other text.
C6_DistanceSymmetric ==
    DistanceCall({}) =>
        /\ ret.value = levenshtein_distance(target, source, {})
        /\ source = <<>> => ret.value = Len(target)
        /\ target = <<>> => ret.value = Len(source)

\* the distance from the empty text to a text with a two-byte scalar
C6_Witness ==
    /\ DistanceCall({})
    /\ source = <<>>
    /\ Len(target) = MaxLen
    /\ str_len(target) > Len(target)
    /\ ret.value = MaxLen

\* C7: for every text a, the distance of a and a is 0 and the unbudgeted
\* similarity of a and a is 100.0 (also for the empty text).
C7_IdenticalTexts ==
    source = target =>
        /\ DistanceCall({}) => ret.value = 0
        /\ SimilarityCall({}) => ret.value = float(100)

\* the similarity of a non-empty text with itself was computed
C7_Witness ==
    /\ SimilarityCall({})
    /\ source = target
    /\ Len(source) = MaxLen
    /\ ret.value = float(100)

\* C8: with a budget B, levenshtein_distance returns exactly B + 1 when the
\* edit distance exceeds B, and the edit distance otherwise.
C8_BudgetSentinel ==
    \A B \in 0..MaxBudget :
        DistanceCall({B}) =>
            ret.value = IF EditDistance(source, target) > B
                        THEN B + 1
                        ELSE EditDistance(source, target)

\* C9: with a budget B and texts not both empty, levenshtein_similarity
\* returns 0.0 when the edit distance exceeds B, and the unbudgeted
\* similarity otherwise.
C9_BudgetForcesZero ==
    \A B \in 0..MaxBudget :
        (SimilarityCall({B}) /\ ~(source = <<>> /\ target = <<>>)) =>
            ret.value = IF EditDistance(source, target) > B
                        THEN float(0)
                        ELSE levenshtein_similarity(source, target, {})

\* the budget was exceeded by a pair whose unbudgeted similarity is not 0,
\* and 0.0 was returned
C9_Witness ==
    \E B \in 0..MaxBudget :
        /\ SimilarityCall({B})
        /\ EditDistance(source, target) > B
        /\ levenshtein_similarity(source, target, {}) # float(0)
        /\ ret.value = float(0)

\* C10: levenshtein_similarity returns (maxLen - distance) / maxLen * 100 with
\* maxLen the larger scalar count of the two texts, and 100 when both are
\* empty.
C10_CharCountDenominator ==
    SimilarityCall({}) =>
        LET maxLen == max(Len(source), Len(target))
        IN  ret.value = IF maxLen = 0 THEN float(100)
                        ELSE percent(maxLen - EditDistance(source, target),
                                     maxLen)

\* conditions on the call a state of SpecText holds
JaccardCall == ret.fn = "jaccard_similarity"

NgramCall(n) == ret.fn = "ngram_similarity" /\ ret.arg = {n}

HybridCall == ret.fn = "hybrid_similarity"

PreFilterCall(T) == ret.fn = "pre_filter_by_length" /\ ret.arg = {T}

SelectCall(name, thr) ==
    ret.fn = "process_and_compare_files" /\ ret.arg = <<name, thr>>

\* C11: on every pair whose Jaccard score is < 20.0, whatever the lengths of
\* the two texts, hybrid_similarity returns exactly that Jaccard score and
\* calls neither the Levenshtein nor the n-gram scorer.
C11_JaccardEarlyExit ==
    (HybridCall /\ f64_lt(jaccard_similarity(source, target), float(20)))
        => /\ ret.value = jaccard_similarity(source, target)
           /\ hybrid_similarity_calls(source, target) = <<"jaccard_similarity">>

\* a pair with a Jaccard score strictly between 0 and 20 whose Levenshtein
\* and n-gram scores both differ from it
C11_Witness ==
    /\ HybridCall
    /\ f64_lt(float(0), jaccard_similarity(source, target))
    /\ f64_lt(jaccard_similarity(source, target), float(20))
    /\ levenshtein_similarity(source, target, {}) # ret.value
    /\ ngram_similarity(source, target, 3) # ret.value

\* a pair with a text of SmallTextLimit bytes and a Jaccard score below 20
C11_WitnessLong ==
    /\ HybridCall
    /\ str_len(source) >= SmallTextLimit
    /\ f64_lt(jaccard_similarity(source, target), float(20))

\* the edit distance of the pair is at most 0.8 * maxLen, maxLen the longer
\* length as the program measures it; the distance is at least the gap
\* between the two character counts, so a gap over the bound settles it
\* without computing the distance of a long text
WithinHybridBudget ==
    LET max_length == max(str_len(source), str_len(target))
        gap == max(Len(source), Len(target)) - min(Len(source), Len(target))
    IN  /\ 10 * gap <= 8 * max_length
        /\ 10 * EditDistance(source, target) <= 8 * max_length

\* both texts are small for hybrid_similarity
BothSmall == str_len(source) < SmallTextLimit /\ str_len(target) < SmallTextLimit

OverHybridBudget ==
    LET max_length == max(str_len(source), str_len(target))
        budget == (8 * max_length) \div 10
        gap == max(Len(source), Len(target)) - min(Len(source), Len(target))
    IN  gap > budget \/ EditDistance(source, target) > budget

C14_NgramForLargeTexts ==
    /\ (/\ HybridCall
        /\ f64_ge(jaccard_similarity(source, target), float(20))
        /\ (str_len(source) >= 1000 \/ str_len(target) >= 1000))
          => /\ ret.value = ngram_similarity(source, target, 3)
             /\ hybrid_similarity_calls(source, target)
                  = <<"jaccard_similarity", "ngram_similarity">>
    /\ (/\ HybridCall
        /\ \E k \in 1..Len(hybrid_similarity_calls(source, target)) :
              hybrid_similarity_calls(source, target)[k]
                  = "levenshtein_distance")
          => /\ str_len(source) < 1000 /\ str_len(target) < 1000
             /\ Len(source) < 1000 /\ Len(target) < 1000

\* a text of exactly 1000 bytes against a text sharing its words: the result
\* is the n-gram score, which is not the fallback of the Levenshtein branch
C14_Witness ==
    /\ HybridCall
    /\ str_len(source) = 1000
    /\ f64_ge(jaccard_similarity(source, target), float(20))
    /\ ret.value = ngram_similarity(source, target, 3)
    /\ f64_lt(float(20), ret.value)

\* a text of 999 bytes against a text sharing its words: the Levenshtein
\* branch ran
C14_WitnessBelow ==
    /\ HybridCall
    /\ str_len(source) = 999
    /\ f64_ge(jaccard_similarity(source, target), float(20))
    /\ hybrid_similarity_calls(source, target)
         = <<"jaccard_similarity", "levenshtein_distance">>

\* C15: the method of a request is always one of the four methods: the names
\* "jaccard", "ngram", "levenshtein" and "hybrid" score the pair with
\* jaccard_similarity, ngram_similarity with n = 3, levenshtein_similarity
\* without a budget and hybrid_similarity; every other name and an absent
\* name select Hybrid; an absent threshold is 30.0.
C15_MethodSelectionTotal ==
    ret.fn = "process_and_compare_files" =>
        LET name == ret.arg[1]
            thr == ret.arg[2]
            selected == ret.value[1]
            used_threshold == ret.value[2]
            score == ret.value[3]
        IN  /\ selected \in {"Jaccard", "Ngram", "Levenshtein", "Hybrid"}
            /\ name = {"jaccard"} =>
                  score = jaccard_similarity(source, target)
            /\ name = {"ngram"} =>
                  score = ngram_similarity(source, target, 3)
            /\ name = {"levenshtein"} =>
                  score = levenshtein_similarity(source, target, {})
            /\ name = {"hybrid"} =>
                  score = hybrid_similarity(source, target)
            /\ name \notin {{"jaccard"}, {"ngram"}, {"levenshtein"}} =>
                  /\ selected = "Hybrid"
                  /\ score = hybrid_similarity(source, target)
            /\ thr = {} => used_threshold = float(30)
            /\ \A t \in thr : used_threshold = t

\* a request with a name that is no method and without a threshold, on a
\* pair that Hybrid scores differently from Jaccard
C15_Witness ==
    /\ SelectCall({"cosine"}, {})
    /\ ret.value[1] = "Hybrid"
    /\ ret.value[2] = float(30)
    /\ ret.value[3] # jaccard_similarity(source, target)

\* the positions of a text where a token starts: a scalar that is not
\* whitespace, at the start of the text or after whitespace
TokenStarts(text) ==
    {i \in 1..Len(text) :
        /\ ~is_whitespace(text[i])
        /\ (i = 1 \/ is_whitespace(text[i - 1]))}

\* the position where the token starting at i ends
TokenEnd(text, i) ==
    CHOOSE j \in i..Len(text) :
        /\ (j = Len(text) \/ is_whitespace(text[j + 1]))
        /\ \A k \in i..j : ~is_whitespace(text[k])

\* the set of lowercased whitespace-delimited tokens of a text
Tokens(text) ==
    {[k \in 1..(TokenEnd(text, i) - i + 1) |->
         char_to_lowercase(text[i + k - 1])] : i \in TokenStarts(text)}

\* C16: jaccard_similarity(source, target) is |A n B| / |A u B| * 100 for the
\* sets A and B of lowercased whitespace-delimited tokens of the two texts,
\* 0 when both sets are empty, and the same with the arguments exchanged.
C16_JaccardOfTokenSets ==
    JaccardCall =>
        LET A == Tokens(source)
            B == Tokens(target)
        IN  /\ ret.value =
                 IF A \cup B = {} THEN float(0)
                 ELSE percent(Cardinality(A \cap B), Cardinality(A \cup B))
            /\ ret.value = jaccard_similarity(target, source)

\* two different texts whose words differ only in case, repetition and
\* spacing score 100
C16_Witness ==
    /\ JaccardCall
    /\ source # target
    /\ Len(source) = 3
    /\ \E k \in 1..Len(source) : source[k] = "A"
    /\ Cardinality(Tokens(source)) = 1
    /\ ret.value = float(100)

\* two texts sharing one word of six score 100/6
C16_WitnessFraction ==
    /\ JaccardCall
    /\ Cardinality(Tokens(source) \cap Tokens(target)) = 1
    /\ Cardinality(Tokens(source) \cup Tokens(target)) = 6
    /\ ret.value = <<50, 3>>

\* C17 as stated: for every text a, jaccard_similarity(a, a) = 100.0.
C17_Original == (JaccardCall /\ source = target) => ret.value = float(100)

\* C17: for every text a that holds at least one word,
\* jaccard_similarity(a, a) = 100.0; for a text without words (empty or
\* whitespace only) it is 0.
C17_IdenticalTexts ==
    (JaccardCall /\ source = target)
        => ret.value = IF \A k \in 1..Len(source) : is_whitespace(source[k])
                       THEN float(0) ELSE float(100)

\* a text of two different words compared with itself
C17_Witness ==
    /\ JaccardCall
    /\ source = target
    /\ Cardinality(Tokens(source)) = 2
    /\ ret.value = float(100)

\* a text of whitespace only compared with itself
C17_WitnessNoWord ==
    /\ JaccardCall
    /\ source = target
    /\ Len(source) > 0
    /\ \A k \in 1..Len(source) : is_whitespace(source[k])
    /\ ret.value = float(0)

\* the number of characters of a text as get_ngrams normalizes it
NormalizedLength(text) == Len(clean_text(text))

\* the window size of the call of ngram_similarity a state holds
NgramSize == CHOOSE n \in ret.arg : TRUE

\* C18 as stated: for every text s and n >= 1 with length(s) >= n,
\* ngram_similarity(s, s, n) = 100.0; and whenever the normalized length of
\* either text is < n, ngram_similarity returns 0.
C18_Original ==
    ret.fn = "ngram_similarity" =>
        /\ (source = target /\ Len(source) >= NgramSize)
              => ret.value = float(100)
        /\ (\/ NormalizedLength(source) < NgramSize
            \/ NormalizedLength(target) < NgramSize)
              => ret.value = float(0)

\* C18: for every text s and n >= 1 such that the normalized text of s has
\* at least n characters, ngram_similarity(s, s, n) = 100.0; and whenever the
\* normalized text of either argument has fewer than n characters,
\* ngram_similarity returns 0.
C18_NgramIdentityAndShort ==
    ret.fn = "ngram_similarity" =>
        /\ (source = target /\ NormalizedLength(source) >= NgramSize)
              => ret.value = float(100)
        /\ (\/ NormalizedLength(source) < NgramSize
            \/ NormalizedLength(target) < NgramSize)
              => ret.value = float(0)

\* a text whose normalized text has exactly 3 characters, compared with
\* itself on windows of 3
C18_Witness ==
    /\ NgramCall(3)
    /\ source = target
    /\ NormalizedLength(source) = 3
    /\ ret.value = float(100)

\* a text of 3 bytes and 2 characters compared with itself on windows of 3
C18_WitnessShort ==
    /\ NgramCall(3)
    /\ source = target
    /\ str_len(clean_text(source)) = 3
    /\ NormalizedLength(source) = 2
    /\ ret.value = float(0)

\* C19: pre_filter_by_length(source, target, T) is true when both texts are
\* empty, whatever T, and otherwise true exactly when
\* (|Ls - Lt| / max(Ls, Lt)) * 100 <= 100 - T for the lengths Ls and Lt of
\* the two texts; at T = 30 "hello" against "hello world" passes and "a"
\* against "this is a very long string" is rejected.
C19_PreFilterFormula ==
    ret.fn = "pre_filter_by_length" =>
        LET T == CHOOSE t \in ret.arg : TRUE
            Ls == str_len(source)
            Lt == str_len(target)
            diff == IF Ls >= Lt THEN Ls - Lt ELSE Lt - Ls
            maxLen == IF Ls >= Lt THEN Ls ELSE Lt
        IN  /\ (Ls = 0 /\ Lt = 0) => ret.value = TRUE
            /\ maxLen > 0 =>
                  (ret.value = TRUE
                     <=> diff * 100 * T[2] <= (100 * T[2] - T[1]) * maxLen)
            /\ (T = float(30) /\ source = Hello /\ target = HelloWorld)
                  => ret.value = TRUE
            /\ (T = float(30) /\ Len(source) = 1 /\ target = VeryLong)
                  => ret.value = FALSE

\* a pair of different lengths that sits exactly on the bound: lengths 1 and
\* 2 at T = 50 pass
C19_Witness ==
    /\ PreFilterCall(float(50))
    /\ str_len(source) = 1
    /\ str_len(target) = 2
    /\ ret.value = TRUE

\* the rejected pair of the unit test
C19_WitnessRejected ==
    /\ PreFilterCall(float(30))
    /\ Len(source) = 1
    /\ target = VeryLong
    /\ ret.value = FALSE

\* C20: compare_with_documents on the source "The quick brown fox", the
\* references "The quick brown fox jumps", "A completely different text" and
\* "The quick brown fox", method Hybrid and threshold 50.0 returns entries for
\* exactly the indices 0 and 2, one each, both with a similarity >= 50.0, and
\* none for index 1.
C20_DocExample ==
    (/\ pc = "done"
     /\ source_text = QuickBrownFox
     /\ target_texts = DocReferences
     /\ method = "Hybrid"
     /\ threshold = float(50))
        => /\ {matches[k][1] : k \in 1..Len(matches)} = {0, 2}
           /\ Len(matches) = 2
           /\ \A k \in 1..Len(matches) : f64_ge(matches[k][2], float(50))
           /\ \A k \in 1..Len(matches) : matches[k][1] # 1

\* the example returned: reference 0 with 76 (distance 6 of 25) and
\* reference 2 with 100
C20_Witness ==
    /\ pc = "done"
    /\ source_text = QuickBrownFox
    /\ target_texts = DocReferences
    /\ MatchSet = {<<0, float(76)>>, <<2, float(100)>>}

\* the number of positions of a sequence that hold a value
Count(seq, value) == Cardinality({k \in 1..Len(seq) : seq[k] = value})

\* the MIME types of the files of the request
InputMimeTypes == {files[k].mime_type : k \in 1..Len(files)}

\* the metadata of every file of the request whose MIME type is mime_type,
\* in the order of the files
ExpectedGroup(mime_type) ==
    LET of_type == SelectSeq(files, LAMBDA f : f.mime_type = mime_type)
    IN  [k \in 1..Len(of_type) |-> file_metadata(request, of_type[k])]

\* C21: whatever the interleaving of the workers, when process_files or
\* process_and_compare_files returns there is exactly one group per MIME type
\* of the input, and the group of a MIME type holds exactly one entry per
\* input file of that type, the entry of that file: none lost, duplicated or
\* put into another group.
C21_OneEntryPerFile ==
    fpc = "done" =>
        /\ DOMAIN grouped = InputMimeTypes
        /\ \A m \in DOMAIN grouped :
              /\ Len(grouped[m]) = Len(ExpectedGroup(m))
              /\ \A k \in 1..Len(grouped[m]) :
                    Count(grouped[m], grouped[m][k])
                        = Count(ExpectedGroup(m), grouped[m][k])

\* two files of one MIME type with different entries were pushed in the
\* reverse of their input order
C21_Witness ==
    /\ fpc = "done"
    /\ Len(files) = 2
    /\ files[1].mime_type = files[2].mime_type
    /\ Len(grouped[files[1].mime_type]) = 2
    /\ grouped[files[1].mime_type][1] # grouped[files[1].mime_type][2]
    /\ grouped[files[1].mime_type][1] = file_metadata(request, files[2])

\* the value of compare_with_documents on a text under the request, as
\* SimilarityMatch records
ComparedWithReferences(text) ==
    LET found == compare_with_documents(text, request.reference_texts,
                     select_method(request.similarity_method),
                     select_threshold(request.similarity_threshold))
    IN  [k \in 1..Len(found) |->
            [reference_index |-> found[k][1],
             similarity_percentage |-> found[k][2]]]

\* a handler of process_and_compare_files accepts the file and extract_text
\* returned Ok
Extracted(file) ==
    /\ find_handler(process_and_compare_files_handlers, file.mime_type) # {}
    /\ extract_text(file.content).ok

\* C22: in process_and_compare_files the entry of every file whose text was
\* successfully extracted has similarity_matches equal to
\* compare_with_documents(extracted text, references, method, threshold),
\* and the entry of a file without handler or with a failed extraction has
\* no similarity_matches.
C22_MatchesOfExtractedText ==
    request.fn = "process_and_compare_files" =>
        \A i \in DOMAIN running :
            running[i].similarity_matches =
                IF Extracted(files[i + 1])
                THEN ComparedWithReferences(
                         extract_text(files[i + 1].content).text)
                ELSE <<>>

\* a text file whose text starts with "Error:" was extracted and, under the
\* default method and threshold, equals a reference; its entry has no match
C22_ErrorPrefixedText ==
    \E i \in DOMAIN running :
        /\ request.fn = "process_and_compare_files"
        /\ request.similarity_method = {}
        /\ Extracted(files[i + 1])
        /\ starts_with(extract_text(files[i + 1].content).text, ErrorMarker)
        /\ running[i].encoding = "utf-8"
        /\ running[i].similarity_matches = <<>>
        /\ Len(ComparedWithReferences(
                   extract_text(files[i + 1].content).text)) > 0

\* some handler accepts the MIME type
Accepted(mime_type) == \E h \in Handlers : can_handle(h, mime_type)

\* C23: the entry a worker builds for a file has encoding "utf-8" and the
\* extracted text exactly when a handler accepts the MIME type and extraction
\* returns Ok, encoding "error" and the text "Error: <message>" exactly when a
\* handler accepts it and extraction returns Err, and encoding
\* "application/octet-stream" and an empty text exactly when no handler
\* accepts it; every file of the input, next to whatever other files, ends
\* with that entry in the group of its MIME type.
C23_EntryPerOutcome ==
    /\ \A i \in DOMAIN running :
          LET entry == running[i]
              file == files[i + 1]
              result == file.content.extracted
          IN  /\ (entry.encoding = "utf-8" /\ entry.text_content = result.text)
                    <=> (Accepted(file.mime_type) /\ result.ok)
              /\ (/\ entry.encoding = "error"
                  /\ entry.text_content =
                         <<"E", "r", "r", "o", "r", ":", " ">> \o result.text)
                    <=> (Accepted(file.mime_type) /\ ~result.ok)
              /\ (/\ entry.encoding = "application/octet-stream"
                  /\ entry.text_content = <<>>)
                    <=> ~Accepted(file.mime_type)
              /\ entry.name = file.filename
    /\ fpc = "done" =>
          \A k \in 1..Len(files) :
              \E j \in 1..Len(grouped[files[k].mime_type]) :
                  LET entry == grouped[files[k].mime_type][j]
                      result == files[k].content.extracted
                  IN  /\ entry.encoding =
                            IF ~Accepted(files[k].mime_type)
                            THEN "application/octet-stream"
                            ELSE IF result.ok THEN "utf-8" ELSE "error"
                      /\ entry.text_content =
                            IF ~Accepted(files[k].mime_type) THEN <<>>
                            ELSE IF result.ok THEN result.text
                            ELSE <<"E", "r", "r", "o", "r", ":", " ">>
                                     \o result.text

\* a request returned with a file whose extraction failed and a file of the
\* same MIME type whose extraction succeeded, each with its own entry
C23_Witness ==
    /\ fpc = "done"
    /\ Len(files) = 2
    /\ files[1].mime_type = files[2].mime_type
    /\ Accepted(files[1].mime_type)
    /\ ~files[1].content.extracted.ok
    /\ files[2].content.extracted.ok
    /\ \E j, k \in 1..Len(grouped[files[1].mime_type]) :
          /\ grouped[files[1].mime_type][j].encoding = "error"
          /\ grouped[files[1].mime_type][k].encoding = "utf-8"
          /\ grouped[files[1].mime_type][k].text_content
               = files[2].content.extracted.text

\* a file no handler accepts ended with encoding application/octet-stream
C23_WitnessNoHandler ==
    /\ fpc = "done"
    /\ \E m \in DOMAIN grouped :
          \E j \in 1..Len(grouped[m]) :
              /\ grouped[m][j].encoding = "application/octet-stream"
              /\ grouped[m][j].text_content = <<>>

\* the text with every run of whitespace collapsed to one space and the
\* whitespace at its ends removed, lowercased
CollapsedText(text) == to_lowercase(JoinWords(split_whitespace(text)))

\* C24: two texts with the same words in the same order, differing only in
\* the whitespace (spaces, tabs, newlines) between them, have the same n-gram
\* set, and ngram_similarity of the two is 100 when the text with its
\* whitespace runs collapsed to single spaces has at least n characters.
C24_WhitespaceCollapsed ==
    (/\ ret.fn = "ngram_similarity"
     /\ split_whitespace(source) = split_whitespace(target)
     /\ Len(CollapsedText(source)) >= NgramSize)
        => /\ get_ngrams(source, NgramSize) = get_ngrams(target, NgramSize)
           /\ ret.value = float(100)

\* the same restricted to texts whose only whitespace is the space
C24_SpacesCollapsed ==
    (/\ ret.fn = "ngram_similarity"
     /\ \A k \in 1..Len(source) : is_whitespace(source[k]) => source[k] = " "
     /\ \A k \in 1..Len(target) : is_whitespace(target[k]) => target[k] = " "
     /\ split_whitespace(source) = split_whitespace(target)
     /\ Len(CollapsedText(source)) >= NgramSize)
        => /\ get_ngrams(source, NgramSize) = get_ngrams(target, NgramSize)
           /\ ret.value = float(100)

\* two different texts of spaces and words with the same words score 100
C24_SpacesWitness ==
    /\ ret.fn = "ngram_similarity"
    /\ source # target
    /\ split_whitespace(source) = split_whitespace(target)
    /\ ret.value = float(100)

\* C25: on two non-empty texts levenshtein_distance keeps exactly two row
\* buffers, each of length min(len(source), len(target)) + 1.
C25_RowWidthOfShorter ==
    (ret.fn = "levenshtein_distance" /\ source # <<>> /\ target # <<>>)
        => LET buffers == row_buffers(source, target)
           IN  /\ Len(buffers) = 2
               /\ \A b \in 1..2 :
                     Cardinality(DOMAIN buffers[b])
                         = min(Len(source), Len(target)) + 1

\* what the buffers are: two, each of length max(len(source), len(target)) + 1
C25_RowWidthOfLonger ==
    (ret.fn = "levenshtein_distance" /\ source # <<>> /\ target # <<>>)
        => LET buffers == row_buffers(source, target)
           IN  /\ Len(buffers) = 2
               /\ \A b \in 1..2 :
                     Cardinality(DOMAIN buffers[b])
                         = max(Len(source), Len(target)) + 1

\* C26: for every pair, in either order, and every budget B,
\* levenshtein_distance(source, target, Some(B)) returns a value > B exactly
\* when the edit distance of the pair is > B, and a returned value <= B is
\* the edit distance; so the loop is never left early on a pair whose
\* distance is <= B.
C26_BudgetSound ==
    ret.fn = "levenshtein_distance" =>
        \A B \in ret.arg :
            /\ (ret.value > B <=> EditDistance(source, target) > B)
            /\ ret.value <= B => ret.value = EditDistance(source, target)
            /\ EditDistance(source, target) <= B
                  => ret.value = EditDistance(source, target)

\* the loop was left early: the value is B + 1 and the distance is larger
C26_Witness ==
    /\ ret.fn = "levenshtein_distance"
    /\ \E B \in ret.arg :
          /\ ret.value = B + 1
          /\ EditDistance(source, target) > B + 1

\* a pair whose distance equals the budget keeps its distance
C26_WitnessAtBudget ==
    /\ ret.fn = "levenshtein_distance"
    /\ \E B \in ret.arg :
          /\ B > 0
          /\ EditDistance(source, target) = B
          /\ ret.value = B

C28_NoUnderflow ==
    /\ ret.fn = "levenshtein_similarity" =>
          /\ \A operands \in
                 levenshtein_similarity_operands(source, target, ret.arg) :
                 operands[2] <= operands[1]
          /\ f64_ge(ret.value, float(0))
    /\ (ret.fn = "calculate_similarity" /\ ret.arg = {"Hybrid"}) =>
          /\ \A operands \in hybrid_similarity_operands(source, target) :
                 operands[2] <= operands[1]
          /\ f64_ge(ret.value, float(0))

\* a pair with a two-byte scalar in which every character differs: the
\* subtraction ran on a byte length and a character count
C28_Witness ==
    /\ ret.fn = "levenshtein_similarity"
    /\ \E operands \in levenshtein_similarity_operands(source, target, ret.arg) :
          /\ operands[2] = max(Len(source), Len(target))
          /\ operands[2] > 0
          /\ operands[1] > operands[2]
    /\ f64_lt(float(0), ret.value)

\* the subtraction of hybrid_similarity ran on a pair with a two-byte scalar
C28_WitnessHybrid ==
    /\ ret.fn = "calculate_similarity"
    /\ ret.arg = {"Hybrid"}
    /\ \E operands \in hybrid_similarity_operands(source, target) :
          operands[1] > max(Len(source), Len(target))

\* the pairs compare_with_documents returns for the request at threshold T
PairsAt(T) ==
    LET returned == compare_with_documents(source_text, target_texts,
                                           method, T)
    IN  {returned[k] : k \in 1..Len(returned)}

\* the pairs the finished call returned
PairsReturned == {matches[k] : k \in 1..Len(matches)}

\* C29: for a fixed source, references and method, the pairs returned at a
\* threshold are among the pairs returned at every lower threshold, and at
\* threshold 0 every reference is returned.
C29_ThresholdMonotone ==
    pc = "done" =>
        /\ \A T1 \in Thresholds :
              f64_ge(threshold, T1) => PairsReturned \subseteq PairsAt(T1)
        /\ \A T2 \in Thresholds :
              f64_ge(T2, threshold) => PairsAt(T2) \subseteq PairsReturned
        /\ threshold = float(0) =>
              {pair[1] : pair \in PairsReturned} = 0..(Len(target_texts) - 1)

\* a finished call returned a pair and a lower threshold returns one more
C29_Witness ==
    /\ pc = "done"
    /\ PairsReturned # {}
    /\ \E T1 \in Thresholds :
          /\ f64_ge(threshold, T1)
          /\ PairsReturned # PairsAt(T1)

\* a finished call at threshold 0 returned a reference the pre-filter passes
\* only at 0 and one that scores 0
C29_WitnessZero ==
    /\ pc = "done"
    /\ threshold = float(0)
    /\ \E pair \in PairsReturned : pair[2] = float(0)
    /\ \E idx \in 1..Len(target_texts) :
          \A T \in Thresholds \ {float(0)} :
              ~pre_filter_by_length(source_text, target_texts[idx], T)

\* the handlers that accept the MIME type of the file looked up
Accepting == {h \in Handlers : can_handle(h, files[1].mime_type)}

\* the entry point other than entry
OtherEntry(entry) == CHOOSE other \in EntryPoints : other # entry

\* C30: at most one of the five handlers accepts any MIME type, so the first
\* accepting handler is the same in the handler order of process_files and
\* in that of process_and_compare_files, and both extract the same text
\* from the same file.
C30_OrderIndependent ==
    /\ Cardinality(Accepting) <= 1
    /\ (ret.fn = "can_handle" /\ ret.value) =>
          \A entry \in EntryPoints :
              find_handler(handlers_of(entry), files[1].mime_type) = ret.arg
    /\ ret.fn = "find" =>
          \A entry \in ret.arg :
              /\ ret.value = Accepting
              /\ ret.value = find_handler(handlers_of(OtherEntry(entry)),
                                          files[1].mime_type)
    /\ ret.fn = "extract_text" =>
          \A entry \in ret.arg :
              ret.value = text_and_encoding(handlers_of(OtherEntry(entry)),
                                            files[1])

\* the position of handler h in the vector handlers
PositionIn(handlers, h) == CHOOSE k \in 1..Len(handlers) : handlers[k] = h

\* find returned a handler that an earlier handler precedes in both orders,
\* and the handlers before it differ between the two orders
C30_Witness ==
    /\ ret.fn = "find"
    /\ \E h \in ret.value :
          /\ PositionIn(process_files_handlers, h) > 1
          /\ PositionIn(process_and_compare_files_handlers, h) > 1
          /\ PositionIn(process_files_handlers, h)
                 # PositionIn(process_and_compare_files_handlers, h)

\* a text was extracted for a file whose handler is not first in the order
C30_WitnessExtract ==
    /\ ret.fn = "extract_text"
    /\ ret.arg = {"process_files"}
    /\ ret.value[2] = "utf-8"
    /\ ret.value[1] # <<>>
    /\ find_handler(process_files_handlers, files[1].mime_type) = {"Text"}

=============================================================================
